---- MODULE Spec2Model ----
(***************************************************************************)
(* Model of the queued MQTT publisher of producer.py (MQTTQueuePublisher   *)
(* and the five data handlers derived from it), of the producer script     *)
(* that drives five publishers in series, and of the worker threads that   *)
(* drain the publishers' deques.                                           *)
(*                                                                         *)
(* Threads are interleaved at the granularity of one source line: deque    *)
(* operations and attribute reads/writes are atomic (CPython), everything  *)
(* else can be preempted between lines.                                    *)
(***************************************************************************)
EXTENDS Integers, Sequences, FiniteSets, TLC

\* ---------------------------------------------------------------------
\* Bounds of the model
\* ---------------------------------------------------------------------
MaxStarts == 2       \* start_q calls issued through the API specification
MaxEnds == 2         \* end_q calls issued through the API specification
MaxAppends == 2      \* append_payload calls issued through the API
NumPoints == 2       \* points per experiment run of the script (n)
MaxMsgs == 2         \* messages delivered to the subscriber clients

\* ---------------------------------------------------------------------
\* Program constants
\* ---------------------------------------------------------------------
NumHandlers == 5     \* dhs = [vdh, idh, mdh, cdh, edh]
QOS == 2             \* publish(topic, payload, qos=2)

None == "None"
Pubs == 1..NumHandlers
ApiPubs == {1}        \* the publisher driven through the API specification
TwoPubs == {1, 2}     \* the publishers of the two-channel specification
Callers == 1..2      \* caller 1 is the main thread

\* A queue item is a Python string: either plain text or a JSON document.
Text(s) == [kind |-> "text", val |-> s]
Stop == Text("stop")
IsStop(x) == x.kind = "text" /\ x.val = "stop"

\* base topic and the five sub-topics of the script
BaseTopic == "data"
subtopics == <<"data/exp1", "data/exp2", "data/exp3", "data/exp4", "data/exp5">>

\* inputs of the API specification
ApiTopics == {"data/exp1", "data/exp2"}
ApiPayloads == {Text("a"), Text("b"), Text("stop")}

VARIABLES
  topic,      \* topic[p]: self._topic of publisher p
  qref,       \* qref[p]: self._q, the index of a deque in deq (0: no attribute)
  tref,       \* tref[p]: self._t, the index of a thread in thr (0: no attribute)
  loopOn,     \* loopOn[p]: the MQTT network thread of client p runs
  conn,       \* conn[p]: client p is connected
  idn,        \* idn[p]: the identity string of handler p
  deq,        \* the deques ever created, by index
  hist,       \* hist[q]: the payloads passed to append_payload on deque q
  thr,        \* the worker threads ever created, by index
  bus,        \* bus[p]: the publish calls made on client p, in call order
  cpc,        \* cpc[c]: what caller thread c is executing
  warnings,   \* warnings[p]: warnings emitted by start_q of publisher p
  main,       \* position of the main thread in the producer script
  ncalls,     \* API calls issued so far (bounds the API specification)
  latest,     \* latest[k]: the deque graphK_latest of plotter.py
  inbox,      \* inbox[k]: messages received by subscriber client k, not
              \* yet handed to on_message_k
  sub,        \* sub[t]: thread t inside on_message of its channel
  nmsgs,      \* messages delivered so far (bounds the subscriber side)
  view,       \* update_graph_live: its position and its locals gk_latest
  since       \* since[k]: the messages stored on channel k after the last
              \* stored clear message, in order (history)

producer == <<topic, qref, tref, loopOn, conn, idn, deq, hist, thr, bus, cpc,
              warnings, main, ncalls>>
plotter == <<latest, inbox, sub, nmsgs, since, view>>
vars == <<producer, plotter>>

Idle == [op |-> "idle", pub |-> 0, arg |-> None, err |-> None]
Off == [op |-> "off", pub |-> 0, arg |-> None, err |-> None]
\* the caller is back at top level after call f on publisher p raised e
Raised(f, p, e) == [op |-> "idle", pub |-> p, arg |-> f, err |-> e]

\* threading.Thread.is_alive: started and not finished
IsAlive(w) == thr[w].pc \in {"loop", "pop", "wait"}
Workers == 1..Len(thr)
AliveWorkers(p) == {w \in Workers : thr[w].pub = p /\ IsAlive(w)}

\* the payloads of a sequence of publish calls / history entries
Payloads(s) == [i \in 1..Len(s) |-> s[i].payload]
InFlight(p) == {i \in 1..Len(bus[p]) : bus[p][i].st = "inflight"}
\* the publish calls that worker w made
PublishedBy(w) == SelectSeq(bus[thr[w].pub], LAMBDA m : m.by = w)
IsPrefix(s, t) == Len(s) <= Len(t) /\ \A i \in 1..Len(s) : s[i] = t[i]
TotalAppends == LET RECURSIVE Sum(_)
                    Sum(i) == IF i = 0 THEN 0 ELSE Len(hist[i]) + Sum(i - 1)
                IN Sum(Len(hist))

\* ---------------------------------------------------------------------
\* plotter.py: the five subscriber clients and their on_message callbacks.
\* Every client has its own network thread, which calls the on_message of
\* its channel for one message at a time.  An array is kept as its column
\* count and the sequence of its rows.
\* ---------------------------------------------------------------------
\* lines 434-438: the column counts of the five initial arrays
cols == <<2, 4, 4, 2, 3>>

\* np.empty((0, c))
empty(c) == [cols |-> c, rows |-> <<>>]

\* lines 427-431: collections.deque(maxlen=1); append drops the oldest
\* entry of a full deque
maxlen == 1
dq_append(d, x) == IF Len(d) >= maxlen THEN Tail(d) \o <<x>> ELSE Append(d, x)

\* The threads that run on_message: thread k <= NumHandlers is the network
\* thread of client k; OtherThread is one more thread running on_message_1
\* at the same time as the network thread of client 1.
OtherThread == NumHandlers + 1
Threads == 1..OtherThread
Chan(t) == IF t <= NumHandlers THEN t ELSE 1

NoMsg == [id |-> "none"]
SubIdle == [pc |-> "idle", m |-> NoMsg, data |-> empty(0), rec |-> <<>>,
            err |-> None]

\* update_graph_live between two calls: no local variable is bound
ViewIdle == [pc |-> "idle", g |-> <<>>, err |-> None]

\* lines 434-438 and 752-760: the initial entries of the graphK_latest
\* deques; five clients subscribed and their network threads waiting
InitSubscribers ==
  /\ latest = [k \in Pubs |->
                 <<[msg |-> [clear |-> TRUE, id |-> "-"],
                    data |-> empty(cols[k])]>>]
  /\ inbox = [k \in Pubs |-> <<>>]
  /\ sub = [t \in Threads |-> SubIdle]
  /\ nmsgs = 0
  /\ since = [k \in Pubs |-> <<>>]
  /\ view = ViewIdle

\* ---------------------------------------------------------------------
\* MQTTQueuePublisher.__init__ of every handler; the API specification
\* starts with connected clients whose callers are idle.
\* ---------------------------------------------------------------------
InitPublishers ==
  /\ topic = [p \in Pubs |-> None]
  /\ qref = [p \in Pubs |-> 0]
  /\ tref = [p \in Pubs |-> 0]
  /\ loopOn = [p \in Pubs |-> FALSE]
  /\ idn = [p \in Pubs |-> ""]
  /\ deq = <<>>
  /\ hist = <<>>
  /\ thr = <<>>
  /\ bus = [p \in Pubs |-> <<>>]
  /\ warnings = [p \in Pubs |-> 0]
  /\ ncalls = [start |-> 0, end |-> 0]

Init ==
  /\ InitPublishers
  /\ InitSubscribers
  /\ conn = [p \in Pubs |-> TRUE]
  /\ cpc = [c \in Callers |-> IF c = 1 THEN Idle ELSE Off]
  /\ main = [at |-> "api", k |-> 0, i |-> 0, exc |-> FALSE]

\* ---------------------------------------------------------------------
\* start_q
\* ---------------------------------------------------------------------
\* mutant: the test of self._topic is missing
QueueActive_never(p) == FALSE

\* mutant: a publisher that was started once counts as running for ever
QueueActive_once(p) == tref[p] # 0

\* line 53: a queue is running unless self._topic is None
QueueActive(p) == topic[p] # None

\* line 53: the test of self._topic; the else branch only warns
start_q(c, p, tp) ==
  /\ cpc[c].op = "idle"
  /\ IF ~QueueActive(p)
     THEN /\ cpc' = [cpc EXCEPT ![c] = [op |-> "start_q:54", pub |-> p,
                                        arg |-> tp, err |-> None]]
          /\ UNCHANGED warnings
     ELSE /\ warnings' = [warnings EXCEPT ![p] = @ + 1]
          /\ cpc' = [cpc EXCEPT ![c] = Idle]
  /\ UNCHANGED <<topic, qref, tref, loopOn, conn, idn, deq, hist, thr, bus>>

\* line 54: self._topic = topic
start_q_54(c) ==
  /\ cpc[c].op = "start_q:54"
  /\ topic' = [topic EXCEPT ![cpc[c].pub] = cpc[c].arg]
  /\ cpc' = [cpc EXCEPT ![c].op = "start_q:55"]
  /\ UNCHANGED <<qref, tref, loopOn, conn, idn, deq, hist, thr, bus,
                 warnings, main, ncalls, plotter>>

\* mutant: a deque left from an earlier start_q is kept
start_q_56_reuse(c) ==
  /\ cpc[c].op = "start_q:55"
  /\ loopOn' = [loopOn EXCEPT ![cpc[c].pub] = TRUE]
  /\ IF qref[cpc[c].pub] # 0
     THEN UNCHANGED <<deq, hist, qref>>
     ELSE /\ deq' = Append(deq, <<>>)
          /\ hist' = Append(hist, <<>>)
          /\ qref' = [qref EXCEPT ![cpc[c].pub] = Len(deq) + 1]
  /\ cpc' = [cpc EXCEPT ![c].op = "start_q:57"]
  /\ UNCHANGED <<topic, tref, conn, idn, thr, bus, warnings, main, ncalls, plotter>>

\* lines 55-56: self.loop_start(); self._q = collections.deque()
start_q_56(c) ==
  /\ cpc[c].op = "start_q:55"
  /\ loopOn' = [loopOn EXCEPT ![cpc[c].pub] = TRUE]
  /\ deq' = Append(deq, <<>>)
  /\ hist' = Append(hist, <<>>)
  /\ qref' = [qref EXCEPT ![cpc[c].pub] = Len(deq) + 1]
  /\ cpc' = [cpc EXCEPT ![c].op = "start_q:57"]
  /\ UNCHANGED <<topic, tref, conn, idn, thr, bus, warnings, main, ncalls, plotter>>

\* lines 57-59: self._t = threading.Thread(args=(self._q, self._topic));
\* the field arg keeps the topic argument of the start_q call that creates
\* the thread (history, not read by the program)
start_q_57(c) ==
  /\ cpc[c].op = "start_q:57"
  /\ LET p == cpc[c].pub IN
       /\ thr' = Append(thr, [pub |-> p, q |-> qref[p], topic |-> topic[p],
                              pc |-> "new", msg |-> 0, arg |-> cpc[c].arg])
       /\ tref' = [tref EXCEPT ![p] = Len(thr) + 1]
  /\ cpc' = [cpc EXCEPT ![c].op = "start_q:60"]
  /\ UNCHANGED <<topic, qref, loopOn, conn, idn, deq, hist, bus, warnings,
                 main, ncalls, plotter>>

\* line 60: self._t.start(); starting a started thread raises RuntimeError
start_q_60(c) ==
  /\ cpc[c].op = "start_q:60"
  /\ LET t == tref[cpc[c].pub] IN
       IF thr[t].pc = "new"
       THEN /\ thr' = [thr EXCEPT ![t].pc = "loop"]
            /\ cpc' = [cpc EXCEPT ![c] = Idle]
       ELSE /\ cpc' = [cpc EXCEPT ![c] =
                              Raised("start_q", cpc[c].pub, "RuntimeError")]
            /\ UNCHANGED thr
  /\ UNCHANGED <<topic, qref, tref, loopOn, conn, idn, deq, hist, bus,
                 warnings, main, ncalls, plotter>>

\* ---------------------------------------------------------------------
\* end_q
\* ---------------------------------------------------------------------
\* mutant: the stop command is put behind the pending payloads
appendleft_append(d, x) == Append(d, x)

\* mutant: the stop command is not put into the deque
appendleft_none(d, x) == d

\* collections.deque.appendleft
appendleft(d, x) == <<x>> \o d

\* line 68: self._q.appendleft("stop")
end_q(c, p) ==
  /\ cpc[c].op = "idle"
  /\ IF qref[p] = 0
     THEN /\ cpc' = [cpc EXCEPT ![c] = Raised("end_q", p, "AttributeError")]
          /\ UNCHANGED deq
     ELSE /\ deq' = [deq EXCEPT ![qref[p]] = appendleft(@, Stop)]
          /\ cpc' = [cpc EXCEPT ![c] = [op |-> "end_q:69", pub |-> p,
                                        arg |-> None, err |-> None]]
  /\ UNCHANGED <<topic, qref, tref, loopOn, conn, idn, hist, thr, bus,
                 warnings>>

\* line 69: self._t is read and join is called on that thread
end_q_69(c) ==
  /\ cpc[c].op = "end_q:69"
  /\ LET t == tref[cpc[c].pub] IN
       IF t = 0
       THEN cpc' = [cpc EXCEPT ![c] =
                      Raised("end_q", cpc[c].pub, "AttributeError")]
       ELSE IF thr[t].pc = "new"
       THEN cpc' = [cpc EXCEPT ![c] =
                      Raised("end_q", cpc[c].pub, "RuntimeError")]
       ELSE cpc' = [cpc EXCEPT ![c].op = "join", ![c].arg = t]
  /\ UNCHANGED <<topic, qref, tref, loopOn, conn, idn, deq, hist, thr, bus,
                 warnings, main, ncalls, plotter>>

\* mutant: end_q does not wait for the thread
Joined_nowait(t) == TRUE

\* threading.Thread.join returns once thread t has finished
Joined(t) == ~IsAlive(t)

\* mutant: join is given a timeout and returns with the thread alive
end_q_join_timeout(c) ==
  /\ cpc[c].op = "join"
  /\ cpc' = [cpc EXCEPT ![c].op = "end_q:70", ![c].arg = None]
  /\ UNCHANGED <<topic, qref, tref, loopOn, conn, idn, deq, hist, thr, bus,
                 warnings, main, ncalls, plotter>>

\* line 69: the caller is blocked in join
end_q_join(c) ==
  /\ cpc[c].op = "join"
  /\ Joined(cpc[c].arg)
  /\ cpc' = [cpc EXCEPT ![c].op = "end_q:70", ![c].arg = None]
  /\ UNCHANGED <<topic, qref, tref, loopOn, conn, idn, deq, hist, thr, bus,
                 warnings, main, ncalls, plotter>>

\* line 70: self.loop_stop()
end_q_70(c) ==
  /\ cpc[c].op = "end_q:70"
  /\ loopOn' = [loopOn EXCEPT ![cpc[c].pub] = FALSE]
  /\ cpc' = [cpc EXCEPT ![c].op = "end_q:71"]
  /\ UNCHANGED <<topic, qref, tref, conn, idn, deq, hist, thr, bus,
                 warnings, main, ncalls, plotter>>

\* line 71: self._topic = None
end_q_71(c) ==
  /\ cpc[c].op = "end_q:71"
  /\ topic' = [topic EXCEPT ![cpc[c].pub] = None]
  /\ cpc' = [cpc EXCEPT ![c] = Idle]
  /\ UNCHANGED <<qref, tref, loopOn, conn, idn, deq, hist, thr, bus,
                 warnings, main, ncalls, plotter>>

\* ---------------------------------------------------------------------
\* append_payload: the topic argument tp is not used
\* ---------------------------------------------------------------------
\* mutant: the deque is a bounded queue whose put waits while it is full
append_payload_bounded(c, p, tp, payload) ==
  /\ cpc[c].op = "idle"
  /\ qref[p] # 0
  /\ Len(deq[qref[p]]) = 0
  /\ deq' = [deq EXCEPT ![qref[p]] = Append(@, payload)]
  /\ hist' = [hist EXCEPT ![qref[p]] =
                Append(@, [payload |-> payload, stopped |-> topic[p] = None])]
  /\ cpc' = [cpc EXCEPT ![c] = Idle]
  /\ UNCHANGED <<topic, qref, tref, loopOn, conn, idn, thr, bus, warnings>>

\* lines 78-79: self._q.append(payload)
append_payload(c, p, tp, payload) ==
  /\ cpc[c].op = "idle"
  /\ IF qref[p] = 0
     THEN /\ cpc' = [cpc EXCEPT ![c] =
                            Raised("append_payload", p, "AttributeError")]
          /\ UNCHANGED <<deq, hist>>
     ELSE /\ deq' = [deq EXCEPT ![qref[p]] = Append(@, payload)]
          /\ hist' = [hist EXCEPT ![qref[p]] =
                        Append(@, [payload |-> payload,
                                   stopped |-> topic[p] = None])]
          /\ cpc' = [cpc EXCEPT ![c] = Idle]
  /\ UNCHANGED <<topic, qref, tref, loopOn, conn, idn, thr, bus, warnings>>

\* ---------------------------------------------------------------------
\* _queue_publisher, the worker thread
\* ---------------------------------------------------------------------
\* mutant: pop() takes the newest item instead of the oldest
popleft_pop(d) == [item |-> d[Len(d)], rest |-> SubSeq(d, 1, Len(d) - 1)]

\* collections.deque.popleft of a non-empty deque
popleft(d) == [item |-> Head(d), rest |-> Tail(d)]

\* mutant: publish without wait_for_publish
AfterPublish_nowait == "loop"

\* line 96: the worker blocks in wait_for_publish after publish
AfterPublish == "wait"

\* mutant: the worker publishes to the base topic of the script
PublishTopic_base(w) == BaseTopic

\* line 96: the topic of publish is the thread's second argument
PublishTopic(w) == thr[w].topic

\* line 90: len(q) > 0; an empty deque makes the loop spin
queue_publisher_90(w) ==
  /\ thr[w].pc = "loop"
  /\ Len(deq[thr[w].q]) > 0
  /\ thr' = [thr EXCEPT ![w].pc = "pop"]
  /\ UNCHANGED <<topic, qref, tref, loopOn, conn, idn, deq, hist, bus, cpc,
                 warnings, main, ncalls, plotter>>

\* lines 92-96: popleft, the test for "stop", publish and the start of
\* wait_for_publish; popleft of an empty deque raises IndexError
queue_publisher_92(w) ==
  /\ thr[w].pc = "pop"
  /\ LET q == thr[w].q
         p == thr[w].pub
     IN IF Len(deq[q]) = 0
        THEN /\ thr' = [thr EXCEPT ![w].pc = "crashed"]
             /\ UNCHANGED <<deq, bus>>
        ELSE /\ deq' = [deq EXCEPT ![q] = popleft(@).rest]
             /\ IF IsStop(popleft(deq[q]).item)
                THEN /\ thr' = [thr EXCEPT ![w].pc = "done"]
                     /\ UNCHANGED bus
                ELSE /\ bus' = [bus EXCEPT ![p] =
                                  Append(@, [topic |-> PublishTopic(w),
                                             payload |-> popleft(deq[q]).item,
                                             qos |-> QOS, by |-> w,
                                             st |-> "inflight"])]
                     /\ thr' = [thr EXCEPT ![w].pc = AfterPublish,
                                           ![w].msg = Len(bus[p]) + 1]
  /\ UNCHANGED <<topic, qref, tref, loopOn, conn, idn, hist, cpc, warnings,
                 main, ncalls, plotter>>

\* mutant: the exception of a failed publish is caught in the loop, which
\* goes on with the next payload
Woken_caught(p, i, pc) ==
  LET w == bus[p][i].by
  IN IF thr[w].pc = "wait" /\ thr[w].msg = i
     THEN [thr EXCEPT ![w].pc = "loop"]
     ELSE thr

\* wait_for_publish of message i of client p returns in the thread that
\* published it, when that thread is blocked in it
Woken(p, i, pc) ==
  LET w == bus[p][i].by
  IN IF thr[w].pc = "wait" /\ thr[w].msg = i
     THEN [thr EXCEPT ![w].pc = pc]
     ELSE thr

\* line 96: the network thread completes the handshake of message i and
\* wait_for_publish returns
publish_confirmed(p, i) ==
  /\ i \in InFlight(p)
  /\ loopOn[p] /\ conn[p]
  /\ bus' = [bus EXCEPT ![p][i].st = "confirmed"]
  /\ thr' = Woken(p, i, "loop")
  /\ UNCHANGED <<topic, qref, tref, loopOn, conn, idn, deq, hist, cpc,
                 warnings, main, ncalls, plotter>>

\* lines 89-96: the loop has no except clause and the class keeps no record
\* of failed payloads; the payloads of publisher p the application can
\* find reported as failed
ErrorSink(p) == {}

\* mutant: the failure is raised in every worker blocked in
\* wait_for_publish, whatever its client
publish_failed_all(p, i) ==
  /\ i \in InFlight(p)
  /\ bus' = [bus EXCEPT ![p][i].st = "failed"]
  /\ thr' = [w \in DOMAIN thr |->
               IF thr[w].pc = "wait" THEN [thr[w] EXCEPT !.pc = "crashed"]
               ELSE thr[w]]
  /\ UNCHANGED <<topic, qref, tref, loopOn, conn, idn, deq, hist, cpc,
                 warnings, main, ncalls, plotter>>

\* line 96: the publish fails and wait_for_publish raises in the worker,
\* which ends the thread
publish_failed(p, i) ==
  /\ i \in InFlight(p)
  /\ bus' = [bus EXCEPT ![p][i].st = "failed"]
  /\ thr' = Woken(p, i, "crashed")
  /\ UNCHANGED <<topic, qref, tref, loopOn, conn, idn, deq, hist, cpc,
                 warnings, main, ncalls, plotter>>

\* ---------------------------------------------------------------------
\* The data handlers and the experiments.  Numbers with a fractional part
\* are held as integer multiples of 1/Unit; np.random.rand() is r/2 for a
\* sample r.  Python indices start at 0, the tuples here at 1.
\* ---------------------------------------------------------------------
Unit == 2 * 3
RandSamples == {0}
Json(d) == [kind |-> "json", val |-> d]

\* lines 394-396, 435-439, 457-459, 477-480: the data of tick i
exp_1(i, r) == <<i, Unit + (r - 1)>>
exp_3(i, r, r3) ==
  LET y1 == 20 * Unit + Unit * (r - 1)
  IN <<i, y1, y1 + Unit, Unit + (r3 - 1)>>
\* mutant: exp_4 generates what exp_5 generates
exp_4_linear(i, r) == <<i, 10 - i, i>>
exp_4(i, r) == <<i, 20 * Unit + (r - 1)>>
exp_5(i) == <<i, 10 - i, i>>

\* lines 414-418: np.linspace(-1, 30, m) and the four columns, in units of
\* 1/(2*(m-1)) (of 1/2 for m = 1)
exp_2(m) ==
  LET d == IF m > 1 THEN m - 1 ELSE 1
      x1(j) == (0 - 2) * d + 62 * (j - 1)
  IN [j \in 1..m |-> <<x1(j), (0 - 2) * x1(j), x1(j), ((0 - 5) * x1(j)) \div 2>>]

\* mutant: exp_2 calls the handler once per row, as the other types do
Ticks_rows(k, m) == m

\* the number of handler calls of experiment k with m points
Ticks(k, m) == IF k = 2 THEN 1 ELSE m

ExpData(k, i, m, r, r3) ==
  CASE k = 1 -> exp_1(i, r)
    [] k = 2 -> exp_2(m)
    [] k = 3 -> exp_3(i, r, r3)
    [] k = 4 -> exp_4(i, r)
    [] OTHER -> exp_5(i)

\* mutant: the payload is built without the clear field
handle_data_noclear(k, id, data) == Json([data |-> data, id |-> id])

\* handle_data of VoltageDataHandler, IVDataHandler, MPPTDataHandler,
\* CurrentDataHandler and EQEDataHandler: the payload handed to
\* append_payload
handle_data(k, id, data) ==
  CASE k = 1 -> Json([x1 |-> data[1], y1 |-> data[1], clear |-> FALSE,
                      id |-> id])
    [] k = 2 -> Json([data |-> data, clear |-> FALSE, id |-> id])
    [] k = 3 -> Json([x1 |-> data[1], y1 |-> data[2], y2 |-> data[3],
                      y3 |-> data[4], clear |-> FALSE, id |-> id])
    [] k = 4 -> Json([x1 |-> data[1], y1 |-> data[1], clear |-> FALSE,
                      id |-> id])
    [] OTHER -> Json([x1 |-> data[1], y1 |-> data[2], y2 |-> data[3],
                      clear |-> FALSE, id |-> id])

\* lines 508-509: the end-of-run record of producer()
ClearRecord(id) == Json([clear |-> TRUE, id |-> id])

\* ---------------------------------------------------------------------
\* The API specification: the main thread issues start_q, append_payload
\* and end_q in any order on the publishers, the workers run concurrently
\* ---------------------------------------------------------------------
CallStartQ ==
  \E p \in ApiPubs, tp \in ApiTopics :
    /\ ncalls.start < MaxStarts
    /\ start_q(1, p, tp)
    /\ ncalls' = [ncalls EXCEPT !.start = @ + 1]
    /\ UNCHANGED <<main, plotter>>

CallEndQ ==
  \E p \in ApiPubs :
    /\ ncalls.end < MaxEnds
    /\ end_q(1, p)
    /\ ncalls' = [ncalls EXCEPT !.end = @ + 1]
    /\ UNCHANGED <<main, plotter>>

CallAppendPayload ==
  \E p \in ApiPubs, tp \in ApiTopics, payload \in ApiPayloads :
    /\ TotalAppends < MaxAppends
    /\ append_payload(1, p, tp, payload)
    /\ UNCHANGED <<main, ncalls, plotter>>

\* a second thread that calls start_q on publisher 1
OtherStartQ ==
  \E tp \in ApiTopics :
    /\ ncalls.start < MaxStarts
    /\ start_q(2, 1, tp)
    /\ ncalls' = [ncalls EXCEPT !.start = @ + 1]
    /\ UNCHANGED <<main, plotter>>

StartQ54 == \E c \in Callers : start_q_54(c)
StartQ56 == \E c \in Callers : start_q_56(c)
StartQ57 == \E c \in Callers : start_q_57(c)
StartQ60 == \E c \in Callers : start_q_60(c)
EndQ69 == \E c \in Callers : end_q_69(c)
EndQJoin == \E c \in Callers : end_q_join(c)
EndQ70 == \E c \in Callers : end_q_70(c)
EndQ71 == \E c \in Callers : end_q_71(c)
WorkerPoll == \E w \in Workers : queue_publisher_90(w)
WorkerPop == \E w \in Workers : queue_publisher_92(w)
BusConfirm == \E p \in Pubs : \E i \in 1..Len(bus[p]) : publish_confirmed(p, i)
BusFail == \E p \in Pubs : \E i \in 1..Len(bus[p]) : publish_failed(p, i)

\* the steps inside the calls, of the workers and of the bus
Steps ==
  \/ StartQ54
  \/ StartQ56
  \/ StartQ57
  \/ StartQ60
  \/ EndQ69
  \/ EndQJoin
  \/ EndQ70
  \/ EndQ71
  \/ WorkerPoll
  \/ WorkerPop
  \/ BusConfirm
  \/ BusFail

Next ==
  \/ CallStartQ
  \/ CallEndQ
  \/ CallAppendPayload
  \/ Steps

Spec == Init /\ [][Next]_vars

\* the same with start_q called from two threads
NextConc == Next \/ OtherStartQ

InitConc ==
  /\ InitPublishers
  /\ InitSubscribers
  /\ conn = [p \in Pubs |-> TRUE]
  /\ cpc = [c \in Callers |-> Idle]
  /\ main = [at |-> "api", k |-> 0, i |-> 0, exc |-> FALSE]

SpecConc == InitConc /\ [][NextConc]_vars

\* ---------------------------------------------------------------------
\* Two channels: the first two handlers have been connected and started
\* (lines 532-534) and payloads are appended to both while their workers
\* run
\* ---------------------------------------------------------------------
InitTwo ==
  /\ InitSubscribers
  /\ topic = [p \in Pubs |-> IF p \in TwoPubs THEN subtopics[p] ELSE None]
  /\ qref = [p \in Pubs |-> IF p \in TwoPubs THEN p ELSE 0]
  /\ tref = [p \in Pubs |-> IF p \in TwoPubs THEN p ELSE 0]
  /\ loopOn = [p \in Pubs |-> p \in TwoPubs]
  /\ conn = [p \in Pubs |-> p \in TwoPubs]
  /\ idn = [p \in Pubs |-> ""]
  /\ deq = <<<<>>, <<>>>>
  /\ hist = <<<<>>, <<>>>>
  /\ thr = <<[pub |-> 1, q |-> 1, topic |-> subtopics[1], pc |-> "loop",
              msg |-> 0, arg |-> subtopics[1]],
             [pub |-> 2, q |-> 2, topic |-> subtopics[2], pc |-> "loop",
              msg |-> 0, arg |-> subtopics[2]]>>
  /\ bus = [p \in Pubs |-> <<>>]
  /\ warnings = [p \in Pubs |-> 0]
  /\ ncalls = [start |-> 0, end |-> 0]
  /\ cpc = [c \in Callers |-> IF c = 1 THEN Idle ELSE Off]
  /\ main = [at |-> "api", k |-> 0, i |-> 0, exc |-> FALSE]

AppendTwo ==
  \E p \in TwoPubs, tp \in ApiTopics, payload \in ApiPayloads :
    /\ TotalAppends < MaxAppends
    /\ append_payload(1, p, tp, payload)
    /\ UNCHANGED <<main, ncalls, plotter>>

NextTwo ==
  \/ AppendTwo
  \/ WorkerPoll
  \/ WorkerPop
  \/ BusConfirm
  \/ BusFail

SpecTwo == InitTwo /\ [][NextTwo]_vars

\* the same with both worker threads and both network threads scheduled
\* fairly: a worker that can take its next line takes it, and a publish
\* that the network thread can complete is completed unless it fails
FairTwo ==
  /\ \A w \in TwoPubs : /\ WF_vars(queue_publisher_90(w))
                         /\ WF_vars(queue_publisher_92(w))
  /\ \A p \in TwoPubs :
       WF_vars(\E i \in 1..Len(bus[p]) : publish_confirmed(p, i))

SpecTwoFair == SpecTwo /\ FairTwo

\* ---------------------------------------------------------------------
\* Stopping: the same two started handlers, with end_q called on the
\* first while payloads are appended and the workers run
\* ---------------------------------------------------------------------
NextEnd ==
  \/ AppendTwo
  \/ CallEndQ
  \/ EndQ69
  \/ EndQJoin
  \/ EndQ70
  \/ EndQ71
  \/ WorkerPoll
  \/ WorkerPop
  \/ BusConfirm
  \/ BusFail

SpecEnd == InitTwo /\ [][NextEnd]_vars

\* the calling thread, once in end_q, goes on with its next line when it
\* can (join returns when the thread has finished)
FairEndQ ==
  /\ WF_vars(end_q_69(1))
  /\ WF_vars(end_q_join(1))
  /\ WF_vars(end_q_70(1))
  /\ WF_vars(end_q_71(1))

SpecEndFair == SpecEnd /\ FairTwo /\ FairEndQ

\* ---------------------------------------------------------------------
\* The producer script: module-level start-up (lines 524-534) and the five
\* producer() runs in series (lines 537-541), with a KeyboardInterrupt
\* possible in the body of the with statement of a run
\* ---------------------------------------------------------------------
InitScript ==
  /\ InitPublishers
  /\ InitSubscribers
  /\ conn = [p \in Pubs |-> FALSE]
  /\ cpc = [c \in Callers |-> IF c = 1 THEN Idle ELSE Off]
  /\ main = [at |-> "connect", k |-> 1, i |-> 0, exc |-> FALSE]

\* line 533: dh.connect(MQTTHOST)
script_connect ==
  /\ main.at = "connect"
  /\ cpc[1].op = "idle"
  /\ conn' = [conn EXCEPT ![main.k] = TRUE]
  /\ main' = [main EXCEPT !.at = "start_q"]
  /\ UNCHANGED <<topic, qref, tref, loopOn, idn, deq, hist, thr, bus, cpc,
                 warnings, ncalls, plotter>>

\* mutant: handler k is started on the sub-topic of the next handler
script_start_q_shift ==
  /\ main.at = "start_q"
  /\ start_q(1, main.k, subtopics[(main.k % NumHandlers) + 1])
  /\ main' = IF main.k < NumHandlers
             THEN [main EXCEPT !.at = "connect", !.k = @ + 1]
             ELSE [main EXCEPT !.at = "with", !.k = 1]
  /\ UNCHANGED <<ncalls, plotter>>

\* line 534: dh.start_q(st), then the next handler or the first producer()
script_start_q ==
  /\ main.at = "start_q"
  /\ start_q(1, main.k, subtopics[main.k])
  /\ main' = IF main.k < NumHandlers
             THEN [main EXCEPT !.at = "connect", !.k = @ + 1]
             ELSE [main EXCEPT !.at = "with", !.k = 1]
  /\ UNCHANGED <<ncalls, plotter>>

\* lines 503-505: entering the with statement; mqttdh.idn = f"dev{i}"
script_enter ==
  /\ main.at = "with"
  /\ cpc[1].op = "idle"
  /\ idn' = [idn EXCEPT ![main.k] = "dev0"]
  /\ main' = [main EXCEPT !.at = "exp", !.i = 0]
  /\ UNCHANGED <<topic, qref, tref, loopOn, conn, deq, hist, thr, bus, cpc,
                 warnings, ncalls, plotter>>

\* line 506: one tick of exp(n, mqttdh.handle_data)
script_handle_data ==
  /\ main.at = "exp"
  /\ main.i < Ticks(main.k, NumPoints)
  /\ \E r \in RandSamples, r3 \in RandSamples :
       append_payload(1, main.k, BaseTopic,
                      handle_data(main.k, idn[main.k],
                                  ExpData(main.k, main.i, NumPoints, r, r3)))
  /\ main' = [main EXCEPT !.i = @ + 1]
  /\ UNCHANGED <<ncalls, plotter>>

\* line 507: the experiment has returned; time.sleep(5)
script_sleep ==
  /\ main.at = "exp"
  /\ main.i = Ticks(main.k, NumPoints)
  /\ cpc[1].op = "idle"
  /\ main' = [main EXCEPT !.at = "clear"]
  /\ UNCHANGED <<topic, qref, tref, loopOn, conn, idn, deq, hist, thr, bus,
                 cpc, warnings, ncalls, plotter>>

\* lines 508-510: the clear record is appended
script_clear ==
  /\ main.at = "clear"
  /\ append_payload(1, main.k, BaseTopic, ClearRecord(idn[main.k]))
  /\ main' = [main EXCEPT !.at = "exit"]
  /\ UNCHANGED <<ncalls, plotter>>

\* a KeyboardInterrupt raised in the main thread inside the with body
script_interrupt ==
  /\ main.at \in {"exp", "clear"}
  /\ cpc[1].op = "idle"
  /\ ~main.exc
  /\ main' = [main EXCEPT !.at = "exit", !.exc = TRUE]
  /\ UNCHANGED <<topic, qref, tref, loopOn, conn, idn, deq, hist, thr, bus,
                 cpc, warnings, ncalls, plotter>>

\* mutant: __exit__ goes on to disconnect without end_q
script_exit_skip ==
  /\ main.at = "exit"
  /\ cpc[1].op = "idle"
  /\ main' = [main EXCEPT !.at = "disconnect"]
  /\ UNCHANGED <<topic, qref, tref, loopOn, conn, idn, deq, hist, thr, bus,
                 cpc, warnings, ncalls, plotter>>

\* lines 107-108: __exit__ calls self.end_q()
script_exit ==
  /\ main.at = "exit"
  /\ end_q(1, main.k)
  /\ main' = [main EXCEPT !.at = "disconnect"]
  /\ UNCHANGED <<ncalls, plotter>>

\* line 109: self.disconnect(); __exit__ returns None, so a pending
\* exception propagates and ends the script, otherwise the next run starts
script_disconnect ==
  /\ main.at = "disconnect"
  /\ cpc[1].op = "idle"
  /\ conn' = [conn EXCEPT ![main.k] = FALSE]
  /\ main' = IF main.exc THEN [main EXCEPT !.at = "dead"]
             ELSE IF main.k < NumHandlers
             THEN [main EXCEPT !.at = "with", !.k = @ + 1]
             ELSE [main EXCEPT !.at = "done"]
  /\ UNCHANGED <<topic, qref, tref, loopOn, idn, deq, hist, thr, bus, cpc,
                 warnings, ncalls, plotter>>

NextScript ==
  \/ script_connect
  \/ script_start_q
  \/ script_enter
  \/ script_handle_data
  \/ script_sleep
  \/ script_clear
  \/ script_interrupt
  \/ script_exit
  \/ script_disconnect
  \/ Steps

SpecScript == InitScript /\ [][NextScript]_vars

\* ---------------------------------------------------------------------
\* The experiment functions exp_1 .. exp_5 called with any number of
\* points n and with a handler or with none (data_handler=None). The
\* handlers have been connected and started (lines 532-534); the handler
\* passed is handle_data of handler k. main.calls is the list of the
\* arguments the handler was called with (not in the source).
\* ---------------------------------------------------------------------
InitExp ==
  /\ InitSubscribers
  /\ topic = [p \in Pubs |-> subtopics[p]]
  /\ qref = [p \in Pubs |-> p]
  /\ tref = [p \in Pubs |-> p]
  /\ loopOn = [p \in Pubs |-> TRUE]
  /\ conn = [p \in Pubs |-> TRUE]
  /\ idn = [p \in Pubs |-> ""]
  /\ deq = [p \in Pubs |-> <<>>]
  /\ hist = [p \in Pubs |-> <<>>]
  /\ thr = [p \in Pubs |-> [pub |-> p, q |-> p, topic |-> subtopics[p],
                            pc |-> "loop", msg |-> 0,
                            arg |-> subtopics[p]]]
  /\ bus = [p \in Pubs |-> <<>>]
  /\ warnings = [p \in Pubs |-> 0]
  /\ ncalls = [start |-> 0, end |-> 0]
  /\ cpc = [c \in Callers |-> IF c = 1 THEN Idle ELSE Off]
  /\ \E k \in Pubs, n \in 0..NumPoints, dh \in BOOLEAN :
       main = [at |-> "exp", k |-> k, i |-> 0, n |-> n, dh |-> dh,
               calls |-> <<>>]

\* lines 393-399, 434-442, 456-462, 476-483: one pass of the for loop;
\* lines 413-421: the one call of exp_2
exp_tick ==
  /\ main.at = "exp"
  /\ main.i < Ticks(main.k, main.n)
  /\ \E r \in RandSamples, r3 \in RandSamples :
       LET data == ExpData(main.k, main.i, main.n, r, r3)
       IN IF main.dh
          THEN /\ append_payload(1, main.k, BaseTopic,
                                 handle_data(main.k, idn[main.k], data))
               /\ main' = [main EXCEPT !.i = @ + 1,
                                       !.calls = Append(@, data)]
          ELSE /\ main' = [main EXCEPT !.i = @ + 1]
               /\ UNCHANGED <<topic, qref, tref, loopOn, conn, idn, deq,
                              hist, thr, bus, cpc, warnings>>
  /\ UNCHANGED <<ncalls, plotter>>

\* the loop is over (exp_2: the call is made) and the function returns
exp_return ==
  /\ main.at = "exp"
  /\ main.i = Ticks(main.k, main.n)
  /\ main' = [main EXCEPT !.at = "returned"]
  /\ UNCHANGED <<topic, qref, tref, loopOn, conn, idn, deq, hist, thr, bus,
                 cpc, warnings, ncalls, plotter>>

NextExp ==
  \/ exp_tick
  \/ exp_return
  \/ WorkerPoll
  \/ WorkerPop
  \/ BusConfirm
  \/ BusFail

SpecExp == InitExp /\ [][NextExp]_vars

\* ---------------------------------------------------------------------
\* on_message_1 .. on_message_5 and the subscriber specification
\* ---------------------------------------------------------------------
\* json.loads of a payload: the document of a JSON text; an int, float,
\* bool or string written by json.dumps is read back as the same value
IsJson(s) == s.kind = "json"
json_loads(s) == s.val

\* the exception ends on_message and, not being caught by the client,
\* the thread that runs it
SubRaise(t, e) == [sub EXCEPT ![t].pc = "dead", ![t].err = e]

\* line 668 (682, 698, 714, 730): thread t takes the next message of its
\* channel and on_message decodes it
on_message_668(t) ==
  /\ sub[t].pc = "idle"
  /\ inbox[Chan(t)] # <<>>
  /\ inbox' = [inbox EXCEPT ![Chan(t)] = Tail(@)]
  /\ LET msg == Head(inbox[Chan(t)]) IN
       IF IsJson(msg.payload)
       THEN sub' = [sub EXCEPT ![t].pc = "669",
                               ![t].m = json_loads(msg.payload),
                               ![t].rec = msg.rec]
       ELSE sub' = SubRaise(t, "JSONDecodeError")
  /\ UNCHANGED <<latest, nmsgs, since, view>>
  /\ UNCHANGED producer

\* line 669: data = graphK_latest[0]["data"]
on_message_669(t) ==
  /\ sub[t].pc = "669"
  /\ IF Len(latest[Chan(t)]) = 0
     THEN sub' = SubRaise(t, "IndexError")
     ELSE sub' = [sub EXCEPT ![t].pc = "671",
                             ![t].data = latest[Chan(t)][1].data]
  /\ UNCHANGED <<latest, inbox, nmsgs, since, view>>
  /\ UNCHANGED producer

\* the keys that on_message_k reads from a message that does not clear
RowKeys(k) ==
  CASE k = 1 -> {"x1", "y1"}
    [] k = 2 -> {"data"}
    [] k = 3 -> {"x1", "y1", "y2", "y3"}
    [] k = 4 -> {"x1", "y1"}
    [] OTHER -> {"x1", "y1", "y2"}

\* lines 674, 706, 722, 738: the row built from the message
Row(k, m) ==
  CASE k = 1 -> <<m.x1, m.y1>>
    [] k = 3 -> <<m.x1, m.y1, m.y2, m.y3>>
    [] k = 4 -> <<m.x1, m.y1>>
    [] OTHER -> <<m.x1, m.y1, m.y2>>

\* mutant: the row takes the place of the rows stored so far
np_append_replace(data, row) == [data EXCEPT !.rows = <<row>>]

\* np.append(data, [row], axis=0)
np_append(data, row) == [data EXCEPT !.rows = Append(@, row)]

\* np.array of a list of rows of four numbers
np_array(rows) == [cols |-> 4, rows |-> rows]

\* mutant: a clear message leaves the array as it is
NewData_keep(k, m, data) ==
  IF m.clear = TRUE THEN data
  ELSE IF k = 2 THEN np_array(m.data)
  ELSE np_append(data, Row(k, m))

\* lines 671-674 (685-688, 701-706, 717-722, 733-738): the new array
NewData(k, m, data) ==
  IF m.clear = TRUE THEN empty(cols[k])
  ELSE IF k = 2 THEN np_array(m.data)
  ELSE np_append(data, Row(k, m))

\* lines 671-674: m["clear"] and the data keys are looked up (KeyError)
\* and np.append needs a row as wide as the array (ValueError)
on_message_671(t) ==
  /\ sub[t].pc = "671"
  /\ LET m == sub[t].m
         k == Chan(t)
     IN IF "clear" \notin DOMAIN m
        THEN sub' = SubRaise(t, "KeyError")
        ELSE IF m.clear # TRUE /\ ~(RowKeys(k) \subseteq DOMAIN m)
        THEN sub' = SubRaise(t, "KeyError")
        ELSE IF m.clear # TRUE /\ k # 2
                /\ Len(Row(k, m)) # sub[t].data.cols
        THEN sub' = SubRaise(t, "ValueError")
        ELSE sub' = [sub EXCEPT ![t].pc = "676",
                                ![t].data = NewData(k, m, sub[t].data)]
  /\ UNCHANGED <<latest, inbox, nmsgs, since, view>>
  /\ UNCHANGED producer

\* line 676: graphK_latest.append({"msg": m, "data": data})
on_message_676(t) ==
  /\ sub[t].pc = "676"
  /\ latest' = [latest EXCEPT ![Chan(t)] =
                  dq_append(@, [msg |-> sub[t].m, data |-> sub[t].data])]
  /\ sub' = [sub EXCEPT ![t] = SubIdle]
  /\ since' = [since EXCEPT ![Chan(t)] = IF sub[t].m.clear = TRUE THEN <<>>
                                         ELSE Append(@, sub[t].m)]
  /\ UNCHANGED <<inbox, nmsgs, view>>
  /\ UNCHANGED producer

\* The messages a broker can hand to the client of channel k: the payloads
\* that handler k builds from the records of experiment k (with the record
\* each was built from), the clear record of producer(), a text that is not
\* JSON and a JSON document without a clear field.
DataMessages(k) ==
  {[payload |-> handle_data(k, "dev0", ExpData(k, i, NumPoints, r, r3)),
    rec |-> ExpData(k, i, NumPoints, r, r3)] :
     i \in 0..(Ticks(k, NumPoints) - 1), r \in RandSamples, r3 \in RandSamples}
OtherMessages ==
  {[payload |-> ClearRecord("dev0"), rec |-> <<>>],
   [payload |-> Text("garbage"), rec |-> <<>>],
   [payload |-> Json([id |-> "dev0"]), rec |-> <<>>]}
Messages(k) == DataMessages(k) \cup OtherMessages

\* lines 752-760: a message published on sub-topic k reaches the client
\* subscribed to it
Deliver(k, msg) ==
  /\ nmsgs < MaxMsgs
  /\ nmsgs' = nmsgs + 1
  /\ inbox' = [inbox EXCEPT ![k] = Append(@, msg)]
  /\ UNCHANGED <<latest, sub, since, view>>
  /\ UNCHANGED producer

Receive == \E k \in Pubs : \E msg \in Messages(k) : Deliver(k, msg)
OnMessage668 == \E k \in Pubs : on_message_668(k)
OnMessage669 == \E k \in Pubs : on_message_669(k)
OnMessage671 == \E k \in Pubs : on_message_671(k)
OnMessage676 == \E k \in Pubs : on_message_676(k)

NextPlot ==
  \/ Receive
  \/ OnMessage668
  \/ OnMessage669
  \/ OnMessage671
  \/ OnMessage676

InitPlot ==
  /\ InitPublishers
  /\ InitSubscribers
  /\ conn = [p \in Pubs |-> FALSE]
  /\ cpc = [c \in Callers |-> Off]
  /\ main = [at |-> "api", k |-> 0, i |-> 0, exc |-> FALSE]

SpecPlot == InitPlot /\ [][NextPlot]_vars

\* ---------------------------------------------------------------------
\* update_graph_live, the dash callback fired by the Interval component,
\* running in a server thread while the network threads run on_message
\* ---------------------------------------------------------------------
\* the Interval fires and the callback is entered
update_graph_live ==
  /\ view.pc = "idle"
  /\ view' = [view EXCEPT !.pc = "read"]
  /\ UNCHANGED <<latest, inbox, sub, nmsgs, since>>
  /\ UNCHANGED producer

\* mutant: the array is taken from the entry read on entry, the message
\* from the entry the store holds when the figure is formatted
Figure_reread(k) == [data |-> view.g[k].data, msg |-> latest[k][1].msg]

\* lines 653-657: format_figure_k(gk_latest["data"], gk,
\* gk_latest["msg"]["id"]): the array and the message figure k is made of
Figure(k) == [data |-> view.g[k].data, msg |-> view.g[k].msg]

\* lines 646-650: gk_latest = graphK_latest[0], one store per line; the
\* index raises IndexError on an empty deque
update_graph_live_646 ==
  /\ view.pc = "read"
  /\ LET k == Len(view.g) + 1 IN
       IF Len(latest[k]) = 0
       THEN view' = [view EXCEPT !.pc = "dead", !.err = "IndexError"]
       ELSE view' = [view EXCEPT !.g = Append(@, latest[k][1]),
                                 !.pc = IF k = NumHandlers THEN "format"
                                        ELSE "read"]
  /\ UNCHANGED <<latest, inbox, sub, nmsgs, since>>
  /\ UNCHANGED producer

\* lines 653-659: the five figures are made and returned
update_graph_live_653 ==
  /\ view.pc = "format"
  /\ view' = [view EXCEPT !.pc = "done",
                          !.g = [k \in Pubs |-> Figure(k)]]
  /\ UNCHANGED <<latest, inbox, sub, nmsgs, since>>
  /\ UNCHANGED producer

\* the figures have been handed to the page; the callback is over
update_graph_live_return ==
  /\ view.pc = "done"
  /\ view' = ViewIdle
  /\ UNCHANGED <<latest, inbox, sub, nmsgs, since>>
  /\ UNCHANGED producer

\* the messages delivered while update_graph_live runs: the data messages
\* of the channel, the clear record and a payload that is not JSON
ViewMessages(k) ==
  DataMessages(k) \cup {[payload |-> ClearRecord("dev0"), rec |-> <<>>],
                        [payload |-> Text("garbage"), rec |-> <<>>]}
ReceiveView == \E k \in Pubs : \E msg \in ViewMessages(k) : Deliver(k, msg)

NextPlotRead ==
  \/ ReceiveView
  \/ OnMessage668
  \/ OnMessage669
  \/ OnMessage671
  \/ OnMessage676
  \/ update_graph_live
  \/ update_graph_live_646
  \/ update_graph_live_653
  \/ update_graph_live_return

SpecPlotRead == InitPlot /\ [][NextPlotRead]_vars

\* on_message_1 called for two data messages of channel 1 from two threads
\* at once: the network thread of client 1 and OtherThread
ReceiveData == \E msg \in DataMessages(1) : Deliver(1, msg)
Other668 == on_message_668(OtherThread)
Other669 == on_message_669(OtherThread)
Other671 == on_message_671(OtherThread)
Other676 == on_message_676(OtherThread)

NextPlotConc ==
  \/ ReceiveData
  \/ OnMessage668
  \/ OnMessage669
  \/ OnMessage671
  \/ OnMessage676
  \/ Other668
  \/ Other669
  \/ Other671
  \/ Other676

SpecPlotConc == InitPlot /\ [][NextPlotConc]_vars

\* ---------------------------------------------------------------------
\* Properties
\* ---------------------------------------------------------------------
\* the payloads appended to deque q while its queue was running
InCycle(q) == Payloads(SelectSeq(hist[q], LAMBDA h : ~h.stopped))
NoStop(s) == \A i \in 1..Len(s) : ~IsStop(s[i])
NoFailure(p) == \A i \in 1..Len(bus[p]) : bus[p][i].st # "failed"
\* end_q of publisher p has returned and start_q was not called since
Stopped(p) == topic[p] = None /\ tref[p] # 0 /\ cpc[1].op = "idle"

\* C1: when end_q has returned and no publish failed, the publish calls of
\* the cycle's worker carry exactly the payloads appended in the cycle, in
\* append order
C1_DrainedAtEndQ ==
  \A p \in Pubs :
    (Stopped(p) /\ NoFailure(p) /\ NoStop(InCycle(qref[p])))
      => Payloads(PublishedBy(tref[p])) = InCycle(qref[p])

\* C2: the payloads a worker has handed to publish are a prefix of the
\* payloads appended to its deque in the worker's cycle, and all go to the
\* worker's channel
C2_PublishIsPrefixOfAppend ==
  \A w \in Workers :
    /\ IsPrefix(Payloads(PublishedBy(w)), InCycle(thr[w].q))
    /\ \A i \in 1..Len(PublishedBy(w)) : PublishedBy(w)[i].topic = thr[w].topic

C2_Witness ==
  \E w \in Workers :
    /\ Len(PublishedBy(w)) = 2
    /\ PublishedBy(w)[1].payload # PublishedBy(w)[2].payload
    /\ Len(hist[thr[w].q]) = 2

\* C3: once the worker of a run whose clear record was appended has
\* exited, with no publish failed, it has published the data records of the
\* run and then the clear record
ClearAppended(k) ==
  qref[k] # 0 /\ \E i \in 1..Len(hist[qref[k]]) :
                   hist[qref[k]][i].payload.val.clear
C3_ClearPublished ==
  \A k \in Pubs :
    (ClearAppended(k) /\ NoFailure(k) /\ thr[tref[k]].pc = "done")
      => /\ Payloads(PublishedBy(tref[k])) = Payloads(hist[qref[k]])
         /\ bus[k][Len(bus[k])].payload.val.clear

\* C4: start_q on a publisher whose queue is running emits one warning and
\* returns; topic, deque, threads and bus stay as they are and the queue
\* has exactly one worker
StartQCalledOn(p) ==
  /\ ncalls'.start = ncalls.start + 1
  /\ \/ warnings'[p] # warnings[p]
     \/ cpc'[1].op = "start_q:54" /\ cpc'[1].pub = p
WorkersOfQueue(p) == {w \in Workers : thr[w].pub = p /\ thr[w].q = qref[p]}
C4_DuplicateStartIsNoOp ==
  [][\A p \in Pubs :
       (topic[p] # None /\ StartQCalledOn(p))
         => /\ warnings'[p] = warnings[p] + 1
            /\ cpc'[1] = Idle
            /\ UNCHANGED <<topic, qref, tref, loopOn, conn, deq, hist, thr,
                           bus>>
            /\ Cardinality(WorkersOfQueue(p)) = 1
            /\ Cardinality(AliveWorkers(p)) <= 1]_vars

C4_Witness ==
  \E p \in Pubs :
    /\ warnings[p] >= 1
    /\ topic[p] # None
    /\ IsAlive(tref[p])
    /\ Len(deq[qref[p]]) >= 1

\* C5: at most one worker thread of a publisher is alive
C5_AtMostOneWorker == \A p \in Pubs : Cardinality(AliveWorkers(p)) <= 1

\* C6: a publisher has at most one unconfirmed publish, a worker that is
\* not in wait_for_publish has none, and a channel served by the workers of
\* one publisher has at most one
InFlightOn(ch) ==
  UNION {{<<p, i>> : i \in {j \in InFlight(p) : bus[p][j].topic = ch}} :
         p \in Pubs}
PublishersOn(ch) ==
  {p \in Pubs : \E w \in AliveWorkers(p) : thr[w].topic = ch}
C6_OneInFlight ==
  /\ \A p \in Pubs : Cardinality(InFlight(p)) <= 1
  /\ \A w \in Workers :
       thr[w].pc # "wait" =>
         \A i \in InFlight(thr[w].pub) : bus[thr[w].pub][i].by # w
  /\ \A ch \in {subtopics[p] : p \in Pubs} :
       Cardinality(PublishersOn(ch)) <= 1 => Cardinality(InFlightOn(ch)) <= 1

C6_Witness ==
  \E p1 \in Pubs, p2 \in Pubs :
    p1 # p2 /\ InFlight(p1) # {} /\ InFlight(p2) # {}

\* C7: the topic is None only while no worker of the publisher is alive,
\* and when end_q returns the topic is None
EndQReturns(p) ==
  /\ cpc[1].op = "end_q:71" /\ cpc[1].pub = p
  /\ cpc'[1].op = "idle"
C7_EndQWaitsForWorker ==
  [][\A p \in Pubs :
       /\ topic'[p] = None => AliveWorkers(p)' = {}
       /\ EndQReturns(p) => topic'[p] = None]_vars

C7_Witness ==
  \E p \in Pubs :
    /\ Stopped(p)
    /\ thr[tref[p]].pc = "done"
    /\ Len(PublishedBy(tref[p])) >= 1

\* C8: a payload appended while the queue is stopped is never published,
\* and that append_payload does not raise
C8_LateAppendDropped ==
  /\ \A w \in Workers : \A i \in 1..Len(PublishedBy(w)) :
       /\ i <= Len(hist[thr[w].q])
       /\ ~hist[thr[w].q][i].stopped
       /\ hist[thr[w].q][i].payload = PublishedBy(w)[i].payload
  /\ \A c \in Callers :
       (cpc[c].op = "idle" /\ cpc[c].err # None
          /\ cpc[c].arg = "append_payload") => qref[cpc[c].pub] = 0

C8_Witness ==
  \E p \in Pubs : \E q \in 1..Len(hist) :
    /\ tref[p] # 0 /\ thr[tref[p]].q = qref[p] /\ q # qref[p]
    /\ \E w \in Workers : thr[w].pub = p /\ thr[w].q = q
    /\ \E i \in 1..Len(hist[q]) : hist[q][i].stopped
    /\ Len(PublishedBy(tref[p])) >= 1

\* C9: after the with statement of a run, entered with the publisher
\* connected and started, the publisher has no live worker, no topic and no
\* connection, whether the body completed or raised; disconnect runs after
\* end_q has returned
ScopeExited(k) ==
  \/ main.at \in {"with", "exp", "clear", "exit", "disconnect"} /\ main.k > k
  \/ main.at \in {"done", "dead"} /\ main.k >= k
C9_ScopedCleanup ==
  /\ \A k \in Pubs :
       ScopeExited(k) => AliveWorkers(k) = {} /\ topic[k] = None /\ ~conn[k]
  /\ (main.at = "disconnect" /\ cpc[1].op = "idle")
       => /\ topic[main.k] = None
          /\ AliveWorkers(main.k) = {}
          /\ conn[main.k]

C9_Witness ==
  /\ main.at = "dead"
  /\ main.k = 2
  /\ Len(bus[1]) >= 1
  /\ Len(bus[2]) >= 1

\* C10: when an interrupted script has come to rest, every worker thread
\* has terminated and every payload appended has been published
C10_InterruptDrains ==
  (main.at = "dead" /\ ~ENABLED NextScript /\ \A p \in Pubs : NoFailure(p))
    => /\ \A w \in Workers : ~IsAlive(w)
       /\ \A p \in Pubs :
            Payloads(PublishedBy(tref[p])) = Payloads(hist[qref[p]])

\* C11: whenever the calling thread is idle and the publisher has a deque,
\* append_payload can be taken for every payload and topic argument and
\* returns in that step with the payload at the tail of the deque,
\* whatever the worker is doing and however long the deque is
AppendReturns(p, tp, payload) ==
  /\ append_payload(1, p, tp, payload)
  /\ UNCHANGED <<main, ncalls, plotter>>
  /\ cpc'[1] = Idle
  /\ deq'[qref[p]] = Append(deq[qref[p]], payload)
C11_AppendNeverWaits ==
  \A p \in Pubs :
    (cpc[1].op = "idle" /\ qref[p] # 0)
      => \A tp \in ApiTopics, payload \in ApiPayloads :
           ENABLED AppendReturns(p, tp, payload)

C11_Witness ==
  \E p \in Pubs :
    /\ cpc[1].op = "idle" /\ topic[p] # None
    /\ thr[tref[p]].pc = "wait"
    /\ Len(deq[qref[p]]) >= 1
    /\ Len(hist[qref[p]]) = MaxAppends

\* C12: with two publishers started on two channels and no end_q, unless a
\* publish fails every payload appended to a publisher is eventually
\* published and confirmed on that publisher's channel; the publishes of a
\* publisher follow its append order and carry only payloads appended to it
AnyFailure == \E p \in TwoPubs : ~NoFailure(p)
PublishedAt(p, i) ==
  /\ Len(bus[p]) >= i
  /\ bus[p][i].payload = hist[qref[p]][i].payload
  /\ bus[p][i].topic = subtopics[p]
  /\ bus[p][i].st = "confirmed"
C12_TwoChannelsDrain ==
  /\ [](\A p \in TwoPubs :
         /\ IsPrefix(Payloads(bus[p]), Payloads(hist[qref[p]]))
         /\ \A i \in 1..Len(bus[p]) : bus[p][i].topic = subtopics[p])
  /\ \A p \in TwoPubs : \A i \in 1..MaxAppends :
       (Len(hist[qref[p]]) >= i) ~> (AnyFailure \/ PublishedAt(p, i))

ExitedWorkers == {w \in Workers : thr[w].pc = "done"}
C14_ExitOnlyOnEndQ == Cardinality(ExitedWorkers) <= ncalls.end

\* C17: a step in which a publish of one publisher fails leaves the topic,
\* deque, worker and publish calls of every other publisher as they are;
\* a publisher none of whose publishes failed and whose payloads are not
\* the stop marker keeps its worker alive, accepts payloads and publishes
\* them in append order, whatever failed elsewhere
FailsNow(p) ==
  \E i \in 1..Len(bus[p]) :
    bus[p][i].st = "inflight" /\ bus'[p][i].st = "failed"
UntouchedBy(q) ==
  /\ UNCHANGED <<topic[q], qref[q], tref[q], loopOn[q], conn[q], bus[q]>>
  /\ UNCHANGED <<deq[qref[q]], thr[tref[q]]>>
Healthy(q) == NoFailure(q) /\ NoStop(Payloads(hist[qref[q]]))
C17_FailureStaysInChannel ==
  /\ [][\A p \in TwoPubs : FailsNow(p) =>
          \A q \in TwoPubs \ {p} : UntouchedBy(q)]_vars
  /\ [](\A q \in TwoPubs : Healthy(q) =>
          /\ IsAlive(tref[q])
          /\ IsPrefix(Payloads(bus[q]), Payloads(hist[qref[q]]))
          /\ ENABLED AppendReturns(q, BaseTopic, Text("a")))

C17_Witness ==
  \E p \in TwoPubs, q \in TwoPubs :
    /\ ~NoFailure(p) /\ thr[tref[p]].pc = "crashed"
    /\ Healthy(q) /\ IsAlive(tref[q])
    /\ Len(bus[q]) = Len(hist[qref[q]]) /\ Len(bus[q]) >= 1
    /\ bus[q][Len(bus[q])].st = "confirmed"

\* C18: a payload whose publish failed, once the worker that published it
\* has ended, was either published again by that worker or is recorded
\* with its failure where the application can see it; the publisher still
\* accepts payloads
Retried(p, i) ==
  \E j \in (i + 1)..Len(bus[p]) :
    bus[p][j].payload = bus[p][i].payload /\ bus[p][j].by = bus[p][i].by
Reported(p, i) == bus[p][i].payload \in ErrorSink(p)
C18_FailureRetriedOrReported ==
  \A p \in Pubs : \A i \in 1..Len(bus[p]) :
    (bus[p][i].st = "failed" /\ ~IsAlive(bus[p][i].by))
      => /\ Retried(p, i) \/ Reported(p, i)
         /\ cpc[1].op = "idle" =>
              ENABLED AppendReturns(p, BaseTopic, bus[p][i].payload)

\* C20: every payload appended by the script is a JSON document with a
\* boolean clear field; the payloads of the handle_data calls of a run have
\* clear false and data fields, the record appended after them by
\* producer() has clear true and no field but clear and id
DataFields(d) == DOMAIN d \ {"clear", "id"}
C20_ClearAlwaysPresent ==
  \A k \in Pubs : qref[k] # 0 =>
    /\ Len(hist[qref[k]]) <= Ticks(k, NumPoints) + 1
    /\ \A i \in 1..Len(hist[qref[k]]) :
         LET pl == hist[qref[k]][i].payload IN
           /\ pl.kind = "json"
           /\ "clear" \in DOMAIN pl.val
           /\ pl.val.clear \in BOOLEAN
           /\ pl.val.clear <=> i = Ticks(k, NumPoints) + 1
           /\ pl.val.clear => DataFields(pl.val) = {}
           /\ ~pl.val.clear => DataFields(pl.val) # {}

C20_Witness ==
  /\ main.at = "done"
  /\ \A k \in Pubs : Len(hist[qref[k]]) = Ticks(k, NumPoints) + 1

\* C15: on every channel a message with clear true and no data fields is
\* handled without an exception, and when on_message stores it the deque
\* holds that message with an array of zero rows (and the channel's column
\* count), whatever array was stored before
IsClearMsg(m) ==
  "clear" \in DOMAIN m /\ m.clear = TRUE /\ DOMAIN m \subseteq {"clear", "id"}
C15_ClearResetsArray ==
  [][\A k \in Pubs :
       /\ IsClearMsg(sub'[k].m) => sub'[k].pc # "dead"
       /\ (sub[k].pc = "676" /\ IsClearMsg(sub[k].m) /\ sub'[k] # sub[k])
            => /\ latest'[k] = <<[msg |-> sub[k].m,
                                  data |-> empty(cols[k])]>>
               /\ sub'[k].pc = "idle"]_vars

C15_Witness ==
  \E k \in Pubs :
    /\ sub[k].pc = "676" /\ IsClearMsg(sub[k].m)
    /\ sub[k].data = empty(cols[k])
    /\ Len(latest[k][1].data.rows) >= 1

\* C16: while the thread of a channel handles a payload that is not JSON or
\* is JSON without a clear field, the channel's deque stays as it is and
\* the thread is not ended by an exception, so that it returns to take the
\* next message
Malformed(s) == ~IsJson(s) \/ "clear" \notin DOMAIN json_loads(s)
HandlesMalformed(k) ==
  /\ sub'[k] # sub[k]
  /\ \/ /\ sub[k].pc = "idle" /\ inbox[k] # <<>>
        /\ Malformed(Head(inbox[k]).payload)
     \/ /\ sub[k].pc \in {"669", "671", "676"}
        /\ "clear" \notin DOMAIN sub[k].m
C16_MalformedSkipped ==
  [][\A k \in Pubs :
       HandlesMalformed(k) => latest'[k] = latest[k] /\ sub'[k].pc # "dead"]_vars

\* C19: a message built by handler k from a record of experiment k is
\* handled without an exception and decodes with clear false; the row that
\* on_message_k is about to store for it equals the record, field by field
\* and in order (types 1, 3, 4, 5), and for type 2 the array it is about to
\* store equals the generated array
LastRow(data) == data.rows[Len(data.rows)]
C19_RoundTrip ==
  \A k \in Pubs :
    sub[k].rec # <<>> =>
      /\ sub[k].pc # "dead"
      /\ sub[k].pc = "676" =>
           /\ sub[k].m.clear = FALSE
           /\ IF k = 2 THEN sub[k].data.rows = sub[k].rec
              ELSE LastRow(sub[k].data) = sub[k].rec

\* C21: every publish of handler k in the script goes to sub-topic k, never
\* to the base topic or another sub-topic; a data payload published there
\* has exactly the data fields that on_message_k reads, and the payloads on
\* sub-topic k are those of experiment k; stated of every step that
\* changes the publishes of a client (there are none at the start)
ScriptPayloads ==
  [k \in Pubs |->
     {handle_data(k, "dev0", ExpData(k, t, NumPoints, r, r3)) :
        t \in 0..(Ticks(k, NumPoints) - 1),
        r \in RandSamples, r3 \in RandSamples}
     \cup {ClearRecord("dev0")}]
OwnSubChannel(p, e) ==
  /\ e.topic = subtopics[p]
  /\ e.topic # BaseTopic
  /\ \A k \in Pubs \ {p} : e.topic # subtopics[k]
  /\ thr[e.by].pub = p
  /\ e.payload \in ScriptPayloads[p]
  /\ ~e.payload.val.clear => DataFields(e.payload.val) = RowKeys(p)
C21_TypeOnOwnSubChannel ==
  [][\A p \in Pubs :
       bus'[p] # bus[p] =>
         \A i \in 1..Len(bus'[p]) : OwnSubChannel(p, bus[p][i])']_vars

C21_Witness ==
  \A k \in Pubs :
    \E i \in 1..Len(bus[k]) :
      ~bus[k][i].payload.val.clear /\ bus[k][i].st = "confirmed"

\* C22: while the caller of end_q is in join and the worker is blocked in
\* wait_for_publish, the caller stays in join, and the worker leaves
\* wait_for_publish only in a step that ends the handshake of the publish
\* it waits for; with that handshake never ended, end_q never returns
JoinBlocked(c) ==
  /\ cpc[c].op = "join"
  /\ thr[cpc[c].arg].pc = "wait"
C22_EndQHangsOnLostConfirm ==
  [][\A c \in Callers :
       JoinBlocked(c) =>
         LET t == cpc[c].arg
             p == thr[t].pub
         IN /\ cpc'[c] = cpc[c]
            /\ topic'[p] = topic[p] /\ loopOn'[p] = loopOn[p]
            /\ thr'[t].pc # "wait" =>
                 /\ bus[p][thr[t].msg].st = "inflight"
                 /\ bus'[p][thr[t].msg].st # "inflight"]_vars

C22_Witness ==
  \E c \in Callers :
    /\ JoinBlocked(c)
    /\ IsStop(Head(deq[thr[cpc[c].arg].q]))
    /\ bus[thr[cpc[c].arg].pub][thr[cpc[c].arg].msg].st = "inflight"
    /\ ~ENABLED end_q_join(c)

\* C23: a step in which a publish fails ends the worker that made it and
\* changes nothing else: no warning, no record of the failure, the topic
\* stays set.  While the publisher's thread is that dead worker nothing is
\* published on the client, a start_q call on the set topic only warns,
\* and append_payload is accepted and does not raise
Dead(p) == tref[p] # 0 /\ thr[tref[p]].pc = "crashed"
C23_WorkerDiesSilently ==
  /\ [][\A p \in Pubs :
          /\ FailsNow(p) =>
               /\ \E i \in 1..Len(bus[p]) :
                    /\ bus'[p][i].st = "failed" /\ bus[p][i].st = "inflight"
                    /\ thr'[bus[p][i].by].pc = "crashed"
               /\ UNCHANGED <<topic, qref, tref, warnings, cpc, deq>>
               /\ ErrorSink(p) = {}
          /\ (Dead(p) /\ Dead(p)') => Len(bus'[p]) = Len(bus[p])
          /\ (Dead(p) /\ topic[p] # None /\ StartQCalledOn(p)) =>
               /\ warnings'[p] = warnings[p] + 1
               /\ UNCHANGED <<topic, qref, tref, thr>>]_vars
  /\ [](\A p \in Pubs :
          (Dead(p) /\ cpc[1].op = "idle") =>
            ENABLED AppendReturns(p, BaseTopic, Text("a")))

C23_Witness ==
  \E p \in Pubs :
    /\ Dead(p) /\ topic[p] # None
    /\ warnings[p] >= 1
    /\ Len(deq[qref[p]]) >= 1
    /\ cpc[1] = Idle

\* C24: on channels 1, 3, 4 and 5 the stored array has one row for each
\* message stored after the last clear message, in the order they were
\* stored, each row holding the fields of its message; on channel 2 the
\* stored array is the data of the last of these messages; the stored
\* message is the one stored last
Last(q) == q[Len(q)]
C24_RowsAccumulate ==
  \A k \in Pubs :
    LET e == latest[k][1]
        n == Len(since[k])
    IN /\ Len(latest[k]) = 1
       /\ IF n = 0 THEN e.msg.clear = TRUE /\ e.data = empty(cols[k])
          ELSE /\ e.msg = Last(since[k])
               /\ IF k = 2 THEN e.data.rows = Last(since[k]).data
                  ELSE /\ Len(e.data.rows) = n
                       /\ \A i \in 1..n : e.data.rows[i] = Row(k, since[k][i])

C24_Witness ==
  \E k \in Pubs \ {2} :
    /\ Len(since[k]) = MaxMsgs
    /\ since[k][1] # since[k][2]
    /\ Len(latest[k][1].data.rows) = MaxMsgs

\* C25: when all invocations of on_message_1 for the non-clear messages
\* delivered have completed, whether they ran one after the other or at
\* the same time, the stored array has one row for each of these messages
AllReturned(k) ==
  /\ inbox[k] = <<>>
  /\ \A t \in Threads : Chan(t) = k => sub[t].pc = "idle"
C25_NoLostUpdate ==
  AllReturned(1) =>
    /\ Len(since[1]) = nmsgs
    /\ Len(latest[1][1].data.rows) = nmsgs
    /\ \A i \in 1..Len(since[1]) :
         \E j \in 1..Len(latest[1][1].data.rows) :
           latest[1][1].data.rows[j] = Row(1, since[1][i])

\* C26: exp_1, exp_3, exp_4 and exp_5 called with n points and a handler
\* call the handler n times, with x = 0, 1, .., n-1 in this order; exp_2
\* calls it once with an array of n rows; every call of the handler
\* enqueues one payload, and without a handler nothing is enqueued
C26_HandlerCalls ==
  LET k == main.k
      n == main.n
      calls == main.calls
  IN /\ main.dh => Len(hist[k]) = Len(calls)
     /\ ~main.dh => calls = <<>> /\ \A p \in Pubs : hist[p] = <<>>
     /\ \A p \in Pubs \ {k} : hist[p] = <<>>
     /\ (main.dh /\ k # 2) => \A j \in 1..Len(calls) : calls[j][1] = j - 1
     /\ (main.dh /\ main.at = "returned") =>
          IF k = 2 THEN Len(calls) = 1 /\ Len(calls[1]) = n
                   ELSE Len(calls) = n
C26_Witness ==
  /\ main.at = "returned"
  /\ main.dh
  /\ main.n = NumPoints
  /\ main.k = 2
  /\ Len(main.calls) = 1
  /\ Len(hist[1]) = 0

\* C27 (as stated): the records of types 4 and 5 have three fields
\* x, y1, y2 with y1 = 10 - x and y2 = x
C27_Types4And5Linear ==
  (main.dh /\ main.k \in {4, 5}) =>
    \A j \in 1..Len(main.calls) :
      /\ Len(main.calls[j]) = 3
      /\ main.calls[j][2] = 10 - main.calls[j][1]
      /\ main.calls[j][3] = main.calls[j][1]
\* C27 (amended): the records of type 5 have three fields x, y1, y2 with
\* y1 = 10 - x and y2 = x; the records of type 4 have two fields x, y
\* with y = 20 + noise, the noise being at most 1/6 (one Unit-th)
C27_Type5LinearType4Noise ==
  /\ (main.dh /\ main.k = 5) =>
       \A j \in 1..Len(main.calls) :
         /\ Len(main.calls[j]) = 3
         /\ main.calls[j][1] = j - 1
         /\ main.calls[j][2] = 10 - main.calls[j][1]
         /\ main.calls[j][3] = main.calls[j][1]
  /\ (main.dh /\ main.k = 4) =>
       \A j \in 1..Len(main.calls) :
         /\ Len(main.calls[j]) = 2
         /\ main.calls[j][1] = j - 1
         /\ main.calls[j][2] >= 20 * Unit - 1
         /\ main.calls[j][2] <= 20 * Unit + 1
C27_Witness ==
  /\ main.at = "returned"
  /\ main.dh
  /\ main.k = 4
  /\ main.n = NumPoints
  /\ Len(main.calls) = NumPoints
  /\ Len(hist[4]) = NumPoints

\* C28: with the workers scheduled fairly and every publish that can be
\* confirmed eventually confirmed (or failed), a call of end_q that has
\* put its stop command into the deque eventually returns, whatever the
\* deque holds and whether the worker is alive or has ended
InEndQ(c) == cpc[c].op \in {"end_q:69", "join", "end_q:70", "end_q:71"}
C28_EndQReturns == \A c \in Callers : InEndQ(c) ~> cpc[c] = Idle
C28_Witness ==
  /\ cpc[1] = Idle
  /\ ncalls.end = 1
  /\ topic[1] = None
  /\ thr[1].pc = "done"
  /\ Len(bus[1]) = 1
  /\ Len(deq[1]) = 1

\* C29: once end_q has put the stop command into the deque, the worker
\* of that deque takes no further payload to publish: the stop command
\* stays at the head until the worker takes it and ends, whatever is
\* pending behind it; as a worker never has more than one publish in
\* flight, at most one publish (of the payload it had taken before)
\* completes after that
Stopping(w) ==
  \/ thr[w].pc \in {"done", "crashed"}
  \/ /\ deq[thr[w].q] # <<>>
     /\ IsStop(Head(deq[thr[w].q]))
InFlightBy(w) == {i \in InFlight(thr[w].pub) : bus[thr[w].pub][i].by = w}
C29_OnePublishAfterStop ==
  /\ [](\A w \in Workers : Cardinality(InFlightBy(w)) <= 1)
  /\ [][/\ \A c \in Callers, p \in Pubs :
            (cpc[c].op = "idle" /\ cpc'[c].op = "end_q:69"
               /\ cpc'[c].pub = p) =>
              Stopping(tref[p])'
        /\ \A w \in Workers :
            Stopping(w) =>
              /\ Stopping(w)'
              /\ Len(PublishedBy(w))' = Len(PublishedBy(w))]_vars
C29_Witness ==
  /\ cpc[1].op = "end_q:69"
  /\ thr[1].pc = "wait"
  /\ Len(deq[1]) = MaxAppends
  /\ IsStop(Head(deq[1]))
  /\ ~IsStop(deq[1][2])

Together(k, e) ==
  IF e.msg.clear = TRUE THEN e.data = empty(cols[k])
  ELSE IF k = 2 THEN e.data = np_array(e.msg.data)
  ELSE /\ Len(e.data.rows) >= 1
       /\ Last(e.data.rows) = Row(k, e.msg)
C31_OneEntryWrittenTogether ==
  /\ \A k \in Pubs : /\ Len(latest[k]) = 1
                      /\ Together(k, latest[k][1])
  /\ view.pc # "dead"
  /\ view.err = None
  /\ \A k \in 1..Len(view.g) : Together(k, view.g[k])
C31_Witness ==
  /\ view.pc = "done"
  /\ Len(view.g[1].data.rows) = 1
  /\ Len(latest[1][1].data.rows) = 2
  /\ view.g[1].msg # latest[1][1].msg

====
